---------------------------- MODULE Spec2Model ----------------------------
(***************************************************************************)
(* A model of examples/table_2.rs: the table example's App state, its key  *)
(* handlers, the draw/read event loop of App::run and the tail of main.    *)
(*                                                                         *)
(* Integer widths.  viewport_height is a u16 and is modelled with its real *)
(* width (U16_MAX = 65535).  Row and column indices and lengths are usize; *)
(* the only usize operations of the program that can leave the range are   *)
(* items.len() - 1 (line 115) and the library's map_or(usize::MAX, ..).    *)
(* The checker's integers are 32 bits wide, so usize::MAX is represented   *)
(* by USIZE_MAX below; every other index of the model is far smaller, so   *)
(* min, comparison and saturation against it behave as against 2^64 - 1.   *)
(*                                                                         *)
(* Build profile.  Rust's +, -, += panic on overflow when overflow checks  *)
(* are compiled in (debug profile) and wrap otherwise (release profile).   *)
(* overflow_checks is chosen in Init and never changes.                    *)
(*                                                                         *)
(* Terminal size.  The library's table render clamps the selection only    *)
(* when the table's area is not empty.  Whether the terminal has any cells *)
(* (frame_area_empty) is chosen in Init and kept for the run.              *)
(***************************************************************************)
EXTENDS Integers, Sequences, FiniteSets, TLC

VARIABLES
    app,               \* the App struct (self)
    pc,                \* where main/run stands
    overflow_checks,   \* build profile: TRUE = overflow panics, FALSE = wraps
    frame_area_empty,  \* the terminal has no cells: frame.area().is_empty()
    result,            \* run's return value: "none" | "Ok" | "Err"
    main_result,       \* main's return value: "none" | "Ok" | "Err"
    restored,          \* ratatui::restore() has been called
    last_event,        \* the event read since the last terminal.draw call (history)
    prev_selected,     \* state.selected before that event's handler (history)
    drawn,             \* the App state the last terminal.draw call showed,
                       \* << >> when it showed none (history)
    draws_since_read,  \* completed draws since the last event::read() (history)
    overflow           \* the arithmetic that overflowed in the last step, or "none" (history)

vars == <<app, pc, overflow_checks, frame_area_empty, result, main_result,
          restored, last_event,
          prev_selected, drawn, draws_since_read, overflow>>

---------------------------------------------------------------------------
\* Bounds of the model.

\* The viewport heights explored are 0..MaxViewport and the top two values
\* of u16: 'J' and 'K' are not offered when they would leave that window.
MaxViewport == 9

\* 'L' is not offered once content_length has reached this value.
MaxContent == 9

\* Without a clamping draw the selected row/column can grow without limit
\* (and the column can count down from usize::MAX); the key that moves it
\* further is not offered once the index has reached this value (or lies
\* above it).
MaxIndex == 2

---------------------------------------------------------------------------
\* Integer types.

U16_MAX == 65535

ViewportInWindow(v) == v <= MaxViewport \/ v >= U16_MAX - 1

USIZE_MAX == 2147483647

Min(a, b) == IF a <= b THEN a ELSE b

\* u16 `a + b` without overflow checks (release): wraps modulo 2^16.
u16_wrapping_add(a, b) == (a + b) % (U16_MAX + 1)

u16_add_overflows(a, b) == a + b > U16_MAX

\* u16/usize saturating_sub.
saturating_sub(a, b) == IF a >= b THEN a - b ELSE 0

\* usize saturating_add.
saturating_add(a, b) == IF a >= USIZE_MAX - b THEN USIZE_MAX ELSE a + b

\* usize `a - b` without overflow checks (release): wraps.  The program only
\* subtracts 1, so the wrapped value is usize::MAX.
usize_wrapping_sub(a, b) == IF a >= b THEN a - b ELSE USIZE_MAX

usize_sub_overflows(a, b) == a < b

---------------------------------------------------------------------------
\* Option<usize>.

None == << >>

Some(i) == <<i>>

Unwrap(o) == o[1]

---------------------------------------------------------------------------
\* Data and generate_fake_names.

\* The names fakeit's name::full() may return.  The email of a record is
\* never read by the state logic and is left out.
Names == {"Ann", "Bob"}

\* a.name.cmp(&b.name) /= Greater, for the names above.
NameLeq(a, b) == a = b \/ (a = "Ann" /\ b = "Bob")

\* The vectors of `length` random names considered, before sorting: one of
\* equal names, and one that alternates and so is out of order.
RawNames(length) ==
    { [i \in 1..length |-> "Ann"],
      [i \in 1..length |-> IF i % 2 = 1 THEN "Bob" ELSE "Ann"] }

RECURSIVE Insert(_, _)
\* Insert x into the sorted sequence s after every element that is <= x.
Insert(s, x) ==
    IF s = << >> THEN <<x>>
    ELSE IF NameLeq(Head(s), x) THEN <<Head(s)>> \o Insert(Tail(s), x)
    ELSE <<x>> \o s

RECURSIVE sorted_by(_)
\* Itertools::sorted_by(|a, b| a.name.cmp(&b.name)): a stable sort by name.
sorted_by(s) ==
    IF s = << >> THEN << >>
    ELSE Insert(sorted_by(SubSeq(s, 1, Len(s) - 1)), s[Len(s)])

\* generate_fake_names(length): the vectors it may return (the names are
\* random): `length` generated names, sorted.
generate_fake_names(length) ==
    { sorted_by(s) : s \in RawNames(length) }

---------------------------------------------------------------------------
\* The library's TableState and ScrollbarState, as far as the program uses
\* them.

\* TableState::select(index)
select(state, index) == [state EXCEPT !.selected = index]

\* TableState::select_next_column()
select_next_column(state) ==
    [state EXCEPT !.selected_column =
        IF state.selected_column = None THEN Some(0)
        ELSE Some(saturating_add(Unwrap(state.selected_column), 1))]

\* TableState::select_previous_column()
select_previous_column(state) ==
    [state EXCEPT !.selected_column =
        IF state.selected_column = None THEN Some(USIZE_MAX)
        ELSE Some(saturating_sub(Unwrap(state.selected_column), 1))]

\* ScrollbarState::new(content_length): position starts at 0.
ScrollbarState_new(content_length) ==
    [content_length |-> content_length, position |-> 0]

\* ScrollbarState::position(p)
position(scroll_state, p) == [scroll_state EXCEPT !.position = p]

\* The table built in render_table has two columns (Name, Email).
ColumnCount == 2

\* <Table as StatefulWidget>::render's effect on the TableState: nothing
\* when the table area is empty; otherwise the selected row is clamped to
\* the rows (None when there are none) and the selected column to the
\* columns.
Table_render(state, rows_len, table_area_empty) ==
    IF table_area_empty THEN state
    ELSE
        LET sel1 == IF state.selected /= None /\ Unwrap(state.selected) >= rows_len
                    THEN Some(saturating_sub(rows_len, 1))
                    ELSE state.selected
            sel2 == IF rows_len = 0 THEN None ELSE sel1
            col1 == IF state.selected_column /= None
                       /\ Unwrap(state.selected_column) >= ColumnCount
                    THEN Some(saturating_sub(ColumnCount, 1))
                    ELSE state.selected_column
        IN [selected |-> sel2, selected_column |-> col1]

---------------------------------------------------------------------------
\* App.

\* App::new()
new ==
    LET content_length == 8
    IN { [state |-> [selected |-> Some(0), selected_column |-> None],
          scroll_state |-> ScrollbarState_new(Len(data_vec)),
          content_length |-> content_length,
          items |-> data_vec,
          viewport_height |-> 8] : data_vec \in generate_fake_names(content_length) }

\* next_row evaluates items.len() - 1 only in the Some arm.
next_row_overflows(self) ==
    self.state.selected /= None /\ usize_sub_overflows(Len(self.items), 1)

\* next_row without the clamp to the last row.
next_row_unclamped(self) ==
    LET i == IF self.state.selected /= None
             THEN Unwrap(self.state.selected) + 1
             ELSE 0
    IN [self EXCEPT !.state = select(self.state, Some(i)),
                    !.scroll_state = position(self.scroll_state, i)]

\* App::next_row (when it does not panic)
next_row(self) ==
    LET i == IF self.state.selected /= None
             THEN Min(Unwrap(self.state.selected) + 1,
                      usize_wrapping_sub(Len(self.items), 1))
             ELSE 0
    IN [self EXCEPT !.state = select(self.state, Some(i)),
                    !.scroll_state = position(self.scroll_state, i)]

\* App::previous_row
previous_row(self) ==
    LET i == IF self.state.selected /= None
             THEN saturating_sub(Unwrap(self.state.selected), 1)
             ELSE 0
    IN [self EXCEPT !.state = select(self.state, Some(i)),
                    !.scroll_state = position(self.scroll_state, i)]

\* App::next_column
next_column(self) == [self EXCEPT !.state = select_next_column(self.state)]

\* App::previous_column
previous_column(self) == [self EXCEPT !.state = select_previous_column(self.state)]

increase_viewport_height_overflows(self) == u16_add_overflows(self.viewport_height, 1)

\* App::increase_viewport_height (when it does not panic)
increase_viewport_height(self) ==
    [self EXCEPT !.viewport_height = u16_wrapping_add(self.viewport_height, 1)]

\* decrease_viewport_height decrementing the wrong field.
decrease_viewport_height_wrong_field(self) ==
    [self EXCEPT !.content_length = saturating_sub(self.content_length, 1)]

\* App::decrease_viewport_height
decrease_viewport_height(self) ==
    [self EXCEPT !.viewport_height = saturating_sub(self.viewport_height, 1)]

\* App::increase_content_length: the states it may leave (the generated
\* names are random).
increase_content_length(self) ==
    LET n == self.content_length + 1
    IN { [self EXCEPT !.content_length = n,
                      !.items = data,
                      !.scroll_state = ScrollbarState_new(Len(data))]
         : data \in generate_fake_names(n) }

\* decrease_content_length without regenerating the items.
decrease_content_length_keeps_items(self) ==
    { [self EXCEPT !.content_length = saturating_sub(self.content_length, 1)] }

\* App::decrease_content_length: the states it may leave.
decrease_content_length(self) ==
    LET n == saturating_sub(self.content_length, 1)
    IN { [self EXCEPT !.content_length = n,
                      !.items = data,
                      !.scroll_state = ScrollbarState_new(Len(data))]
         : data \in generate_fake_names(n) }

\* App::draw computes viewport_height + 1 for the first layout constraint.
draw_overflows(self) == u16_add_overflows(self.viewport_height, 1)

\* The table's area is empty when the frame's area is, or when the first
\* layout constraint is Length(0).
table_area_empty(self, frame_empty) ==
    frame_empty \/ u16_wrapping_add(self.viewport_height, 1) = 0

\* App::render_table: the table has one row per item.
render_table(self, area_empty) ==
    [self EXCEPT !.state = Table_render(self.state, Len(self.items), area_empty)]

\* App::draw (when it does not panic); the scrollbar, status and footer
\* renders leave the App unchanged.
draw(self, frame_empty) ==
    render_table(self, table_area_empty(self, frame_empty))

---------------------------------------------------------------------------
\* Events.

KeyCodes == {"j", "Down", "k", "Up", "J", "K", "l", "Right", "h", "Left",
             "H", "L", "q", "Esc", "x"}

Key(code, kind) == [type |-> "Key", code |-> code, kind |-> kind]

NoEvent == [type |-> "None", code |-> "", kind |-> ""]

\* What event::read() may return: a key press of every code, some key
\* releases, and an event that is no key event.
Events ==
    { Key(c, "Press") : c \in KeyCodes }
    \cup { Key(c, "Release") : c \in {"j", "q"} }
    \cup { [type |-> "Resize", code |-> "", kind |-> ""] }

\* The `if let` / `if` / `match` of run: the arm an event takes.
Dispatch(ev) ==
    IF ev.type /= "Key" THEN "ignored"
    ELSE IF ev.kind /= "Press" THEN "ignored"
    ELSE CASE ev.code \in {"j", "Down"}  -> "next_row"
           [] ev.code \in {"k", "Up"}    -> "previous_row"
           [] ev.code = "J"              -> "increase_viewport_height"
           [] ev.code = "K"              -> "decrease_viewport_height"
           [] ev.code \in {"l", "Right"} -> "next_column"
           [] ev.code \in {"h", "Left"}  -> "previous_column"
           [] ev.code = "H"              -> "decrease_content_length"
           [] ev.code = "L"              -> "increase_content_length"
           [] ev.code \in {"q", "Esc"}   -> "quit"
           [] OTHER                      -> "ignored"

\* The loop going back to event::read() without drawing.
LoopBack_skips_draw == "read"

\* Where run continues after an event that did not return: the `loop`.
LoopBack == "draw"

\* Where run continues after a completed terminal.draw.
AfterDraw == "read"

---------------------------------------------------------------------------
\* Initial state: main has installed color_eyre, initialised the terminal
\* and evaluated App::new(); run is about to start.

InitCommon ==
    /\ pc = "draw"
    /\ overflow_checks \in BOOLEAN
    /\ frame_area_empty \in BOOLEAN
    /\ result = "none"
    /\ main_result = "none"
    /\ restored = FALSE
    /\ last_event = NoEvent
    /\ prev_selected = None
    /\ drawn = << >>
    /\ draws_since_read = 0
    /\ overflow = "none"

Init ==
    /\ app \in new
    /\ InitCommon

---------------------------------------------------------------------------
\* run: terminal.draw(|frame| self.draw(frame))?

history == <<last_event, prev_selected>>

mainvars == <<result, main_result, restored>>

\* One call of terminal.draw.  Its outcomes: viewport_height + 1 overflows
\* with overflow checks and the render callback panics; the draw completes;
\* or it fails, before the render callback ran (autoresize) or after it
\* (flush), and run returns the error.
Draw ==
    /\ pc = "draw"
    /\ IF overflow_checks /\ draw_overflows(app)
       THEN /\ pc' = "panicked"
            /\ overflow' = "viewport_height + 1"
            /\ UNCHANGED <<app, mainvars, history, drawn, draws_since_read>>
       ELSE \E outcome \in {"ok", "err_before_render", "err_after_render"} :
            /\ app' = IF outcome = "err_before_render" THEN app
                      ELSE draw(app, frame_area_empty)
            /\ overflow' = IF outcome /= "err_before_render" /\ draw_overflows(app)
                           THEN "viewport_height + 1" ELSE "none"
            /\ last_event' = NoEvent
            /\ prev_selected' = None
            /\ IF outcome = "ok"
               THEN /\ drawn' = <<app'>>
                    /\ draws_since_read' = Min(draws_since_read + 1, 2)
                    /\ pc' = AfterDraw
                    /\ UNCHANGED mainvars
               ELSE /\ drawn' = << >>
                    /\ result' = "Err"
                    /\ pc' = "returned"
                    /\ UNCHANGED <<main_result, restored, draws_since_read>>
    /\ UNCHANGED <<overflow_checks, frame_area_empty>>

---------------------------------------------------------------------------
\* run: event::read()? and the match on the key.

\* Bookkeeping common to every event that event::read() returns.
Received(ev) ==
    /\ last_event' = ev
    /\ prev_selected' = app.state.selected
    /\ draws_since_read' = 0
    /\ UNCHANGED <<overflow_checks, frame_area_empty, drawn>>

\* event::read() fails: run returns the error.
ReadErr ==
    /\ pc = "read"
    /\ result' = "Err"
    /\ pc' = "returned"
    /\ UNCHANGED <<app, overflow_checks, frame_area_empty, main_result, restored, history, drawn,
                   draws_since_read, overflow>>

OnNextRow ==
    /\ pc = "read"
    /\ \E ev \in Events :
          /\ Dispatch(ev) = "next_row"
          /\ Received(ev)
    /\ IF next_row_overflows(app) THEN Unwrap(app.state.selected) < MaxIndex
       ELSE TRUE
    /\ IF next_row_overflows(app)
       THEN /\ overflow' = "items.len() - 1"
            /\ IF overflow_checks
               THEN pc' = "panicked" /\ app' = app
               ELSE pc' = LoopBack /\ app' = next_row(app)
       ELSE /\ overflow' = "none"
            /\ pc' = LoopBack
            /\ app' = next_row(app)
    /\ UNCHANGED mainvars

OnPreviousRow ==
    /\ pc = "read"
    /\ \E ev \in Events :
          /\ Dispatch(ev) = "previous_row"
          /\ Received(ev)
    /\ app' = previous_row(app)
    /\ pc' = LoopBack
    /\ overflow' = "none"
    /\ UNCHANGED mainvars

OnNextColumn ==
    /\ pc = "read"
    /\ \E ev \in Events :
          /\ Dispatch(ev) = "next_column"
          /\ Received(ev)
    /\ IF app.state.selected_column = None THEN TRUE
       ELSE IF Unwrap(app.state.selected_column) = USIZE_MAX THEN TRUE
       ELSE Unwrap(app.state.selected_column) < MaxIndex
    /\ app' = next_column(app)
    /\ pc' = LoopBack
    /\ overflow' = "none"
    /\ UNCHANGED mainvars

OnPreviousColumn ==
    /\ pc = "read"
    /\ \E ev \in Events :
          /\ Dispatch(ev) = "previous_column"
          /\ Received(ev)
    /\ IF app.state.selected_column = None THEN TRUE
       ELSE Unwrap(app.state.selected_column) <= MaxIndex
    /\ app' = previous_column(app)
    /\ pc' = LoopBack
    /\ overflow' = "none"
    /\ UNCHANGED mainvars

OnIncreaseViewportHeight ==
    /\ pc = "read"
    /\ \E ev \in Events :
          /\ Dispatch(ev) = "increase_viewport_height"
          /\ Received(ev)
    /\ ViewportInWindow(u16_wrapping_add(app.viewport_height, 1))
    /\ IF increase_viewport_height_overflows(app)
       THEN /\ overflow' = "viewport_height += 1"
            /\ IF overflow_checks
               THEN pc' = "panicked" /\ app' = app
               ELSE pc' = LoopBack /\ app' = increase_viewport_height(app)
       ELSE /\ overflow' = "none"
            /\ pc' = LoopBack
            /\ app' = increase_viewport_height(app)
    /\ UNCHANGED mainvars

OnDecreaseViewportHeight ==
    /\ pc = "read"
    /\ \E ev \in Events :
          /\ Dispatch(ev) = "decrease_viewport_height"
          /\ Received(ev)
    /\ ViewportInWindow(saturating_sub(app.viewport_height, 1))
    /\ app' = decrease_viewport_height(app)
    /\ pc' = LoopBack
    /\ overflow' = "none"
    /\ UNCHANGED mainvars

OnIncreaseContentLength ==
    /\ pc = "read"
    /\ \E ev \in Events :
          /\ Dispatch(ev) = "increase_content_length"
          /\ Received(ev)
    /\ app.content_length < MaxContent
    /\ app' \in increase_content_length(app)
    /\ pc' = LoopBack
    /\ overflow' = "none"
    /\ UNCHANGED mainvars

OnDecreaseContentLength ==
    /\ pc = "read"
    /\ \E ev \in Events :
          /\ Dispatch(ev) = "decrease_content_length"
          /\ Received(ev)
    /\ app' \in decrease_content_length(app)
    /\ pc' = LoopBack
    /\ overflow' = "none"
    /\ UNCHANGED mainvars

\* KeyCode::Char('q') | KeyCode::Esc => return Ok(())
OnQuit ==
    /\ pc = "read"
    /\ \E ev \in Events :
          /\ Dispatch(ev) = "quit"
          /\ Received(ev)
    /\ result' = "Ok"
    /\ pc' = "returned"
    /\ overflow' = "none"
    /\ UNCHANGED <<app, main_result, restored>>

\* `_ => {}`, a key event that is no press, or an event that is no key event.
OnIgnored ==
    /\ pc = "read"
    /\ \E ev \in Events :
          /\ Dispatch(ev) = "ignored"
          /\ Received(ev)
    /\ pc' = LoopBack
    /\ overflow' = "none"
    /\ UNCHANGED <<app, mainvars>>

---------------------------------------------------------------------------
\* main, after run has returned.

\* ratatui::restore();
MainRestore ==
    /\ pc = "returned"
    /\ restored' = TRUE
    /\ pc' = "restored"
    /\ UNCHANGED <<app, overflow_checks, frame_area_empty, result, main_result, history, drawn,
                   draws_since_read, overflow>>

\* main returning Ok(()) whatever run returned.
MainReturn_discards_result ==
    /\ pc = "restored"
    /\ main_result' = "Ok"
    /\ pc' = "exit"
    /\ UNCHANGED <<app, overflow_checks, frame_area_empty, result, restored, history,
                   drawn, draws_since_read, overflow>>

\* app_result
MainReturn ==
    /\ pc = "restored"
    /\ main_result' = result
    /\ pc' = "exit"
    /\ UNCHANGED <<app, overflow_checks, frame_area_empty, result, restored, history, drawn,
                   draws_since_read, overflow>>

Next ==
    \/ Draw
    \/ ReadErr
    \/ OnNextRow
    \/ OnPreviousRow
    \/ OnNextColumn
    \/ OnPreviousColumn
    \/ OnIncreaseViewportHeight
    \/ OnDecreaseViewportHeight
    \/ OnIncreaseContentLength
    \/ OnDecreaseContentLength
    \/ OnQuit
    \/ OnIgnored
    \/ MainRestore
    \/ MainReturn

Spec == Init /\ [][Next]_vars

\* The same program after 'J' has been pressed U16_MAX - 1 - 8 times, each
\* press followed by a completed draw: viewport_height stands one below
\* the top of u16.
InitNearMax ==
    /\ app \in { [a EXCEPT !.viewport_height = U16_MAX - 1] : a \in new }
    /\ InitCommon

SpecNearMax == InitNearMax /\ [][Next]_vars

---------------------------------------------------------------------------
\* Properties.

Press(code) == Key(code, "Press")

\* The state run starts in: nothing drawn yet.
InitialState == pc = "draw" /\ drawn = << >>

\* A key handler has just run and the loop is about to draw.
AfterHandler == pc = "draw" /\ last_event \in Events

\* The App state before the handler of last_event ran (the loop drew it).
Before == drawn[1]

\* C1: whenever a row is selected and items is non-empty, the selected row
\* index i satisfies 0 <= i <= items.len() - 1, in the initial state and
\* after every key operation.
C1_SelectionClamped ==
    (app.state.selected /= None /\ Len(app.items) > 0)
        => /\ 0 <= Unwrap(app.state.selected)
           /\ Unwrap(app.state.selected) <= Len(app.items) - 1

\* C2: items.len() equals content_length and the scrollbar state's content
\* length equals items.len(), in every state; initially all three are 8.
C2_ContentLengthIsRecordCount ==
    /\ Len(app.items) = app.content_length
    /\ app.scroll_state.content_length = Len(app.items)
    /\ InitialState => /\ app.content_length = 8
                       /\ Len(app.items) = 8
                       /\ app.scroll_state.content_length = 8

\* C2 witness: 'L' has raised the content length above its initial value and
\* 'H' has emptied the list, in two reachable states; this is the first.
C2_Witness ==
    /\ AfterHandler
    /\ last_event = Press("L")
    /\ app.content_length = 9
    /\ Len(app.items) = 9
    /\ Before.content_length = 8

\* C3: 'K'/'H' lower viewport height/content length by exactly 1 and stop at
\* 0, 'J'/'L' raise them by exactly 1, and no viewport_height arithmetic
\* (viewport_height += 1, and viewport_height + 1 in draw) ever overflows u16.
C3_ClampedStepsNoOverflow ==
    /\ overflow \notin {"viewport_height += 1", "viewport_height + 1"}
    /\ app.viewport_height \in 0..U16_MAX
    /\ (AfterHandler /\ last_event = Press("J"))
          => app.viewport_height = Before.viewport_height + 1
    /\ (AfterHandler /\ last_event = Press("K"))
          => app.viewport_height = IF Before.viewport_height = 0 THEN 0
                                   ELSE Before.viewport_height - 1
    /\ (AfterHandler /\ last_event = Press("L"))
          => app.content_length = Before.content_length + 1
    /\ (AfterHandler /\ last_event = Press("H"))
          => app.content_length = IF Before.content_length = 0 THEN 0
                                  ELSE Before.content_length - 1

\* C4: run returns Err only from a failing terminal.draw or event::read (not
\* from a key handler), at once and with no App mutation after the failure;
\* it returns Ok only after a press of 'q' or Esc; once run has returned the
\* App is never mutated again, main calls restore() only after run returned
\* and before it returns, and main returns run's result unchanged.
C4_ErrorsPropagated ==
    /\ [](result = "Ok" => last_event \in {Press("q"), Press("Esc")})
    /\ [](result = "Err" => last_event = NoEvent)
    /\ [][(result = "none" /\ result' /= "none") => pc' = "returned"]_vars
    /\ [][(result' = "Err" /\ pc = "read") => app' = app]_vars
    /\ [][result /= "none" => (app' = app /\ result' = result)]_vars
    /\ [](restored => result /= "none")
    /\ [](pc = "exit" => (restored /\ main_result = result))
    /\ [](main_result /= "none" => pc = "exit")

\* C4 witness: a terminal error has travelled out of main, after restore().
C4_Witness ==
    /\ pc = "exit"
    /\ result = "Err"
    /\ main_result = "Err"
    /\ restored

\* C5: the loop ends right after an event only when that event is a press
\* of Esc or 'q'; no other event ends it.
C5_OnlyQuitEndsLoop ==
    (pc \notin {"draw", "read"} /\ last_event \in Events)
        => last_event \in {Press("q"), Press("Esc")}

\* C6: whenever run is about to read an event, exactly one draw has
\* completed since the previous read (or since the start, for the first
\* read), and that draw showed the App state as it now is.
C6_DrawReadAlternate ==
    pc = "read" => (draws_since_read = 1 /\ drawn = <<app>>)

\* C6 witness: a key press has mutated the App and the mutated state has
\* been drawn before the next read.
C6_Witness ==
    /\ pc = "read"
    /\ drawn = <<app>>
    /\ app.content_length = 7
    /\ app.viewport_height = 9
    /\ app.state.selected = Some(3)

\* C7: with items non-empty, 'j'/Down maps Some(i) to
\* Some(min(i + 1, items.len() - 1)) and 'k'/Up maps Some(i) to Some(i - 1)
\* for i > 0 and Some(0) to Some(0); from None both select row 0.
C7_RowNavigationSteps ==
    (AfterHandler /\ Len(app.items) > 0) =>
        /\ last_event \in {Press("j"), Press("Down")} =>
              app.state.selected =
                  IF prev_selected = None THEN Some(0)
                  ELSE Some(Min(Unwrap(prev_selected) + 1, Len(app.items) - 1))
        /\ last_event \in {Press("k"), Press("Up")} =>
              app.state.selected =
                  IF prev_selected = None THEN Some(0)
                  ELSE IF Unwrap(prev_selected) > 0
                       THEN Some(Unwrap(prev_selected) - 1)
                       ELSE Some(0)

\* C7 witness: 'j' pressed on the last row leaves the selection there.
C7_Witness ==
    /\ AfterHandler
    /\ last_event = Press("j")
    /\ Len(app.items) = 8
    /\ prev_selected = Some(7)
    /\ app.state.selected = Some(7)

\* C8: the scrollbar state's position equals the selected row index, in the
\* initial state and after every key operation.
C8_ScrollbarTracksSelection ==
    app.state.selected /= None
        => app.scroll_state.position = Unwrap(app.state.selected)

\* C9: pressing 'j'/Down never makes items.len() - 1 underflow, and leaves a
\* selection that is a valid index of the current items.
C9_NextRowNeverUnderflows ==
    /\ overflow /= "items.len() - 1"
    /\ (AfterHandler /\ last_event \in {Press("j"), Press("Down")})
          => /\ app.state.selected /= None
             /\ Unwrap(app.state.selected) < Len(app.items)

\* C10: a step that handles an event changes only that key's part of the
\* App: 'J'/'K' only viewport_height; 'h'/'l'/Left/Right only the selected
\* column; 'j'/'k'/Up/Down only the selected row and the scrollbar position;
\* 'H'/'L' only content_length, items and the scrollbar state; every other
\* event (unmapped keys, key events that are no press, events that are no
\* key event) nothing.
C10_KeyFrame ==
    [][(pc = "read" /\ last_event' \in Events) =>
        LET ev == last_event' IN
        IF ev \in {Press("J"), Press("K")}
        THEN app' = [app EXCEPT !.viewport_height = app'.viewport_height]
        ELSE IF ev \in {Press("h"), Press("l"), Press("Left"), Press("Right")}
        THEN app' = [app EXCEPT !.state.selected_column = app'.state.selected_column]
        ELSE IF ev \in {Press("j"), Press("k"), Press("Up"), Press("Down")}
        THEN app' = [app EXCEPT !.state.selected = app'.state.selected,
                                !.scroll_state.position = app'.scroll_state.position]
        ELSE IF ev \in {Press("H"), Press("L")}
        THEN app' = [app EXCEPT !.content_length = app'.content_length,
                                !.items = app'.items,
                                !.scroll_state = app'.scroll_state]
        ELSE IF ev \in {Press("q"), Press("Esc")}
        THEN TRUE
        ELSE app' = app
    ]_vars

\* C10 witness: 'K' has lowered the viewport height and nothing else.
C10_Witness ==
    /\ AfterHandler
    /\ last_event = Press("K")
    /\ app.viewport_height = 7
    /\ app = [Before EXCEPT !.viewport_height = 7]
    /\ Before.viewport_height = 8

=============================================================================
